---- MODULE Spec2Model ----
(***************************************************************************)
(* Model of rionotes: Config, the Timeline / Note / Chord caches and the   *)
(* Track composition operators (src/rionotes/wave_objects.py) together     *)
(* with the wave functions (src/rionotes/wave_functions.py).               *)
(*                                                                         *)
(* Representation.                                                         *)
(*  - A str is a sequence of tokens: a pitch name such as "a4", or one of  *)
(*    the characters "+", "*", "-", "\n", " ".  str.split / str.strip /    *)
(*    str.replace are modelled on token sequences; '' is <<>>.             *)
(*  - A float sample is a fixed-point integer in units of 1/Unit.          *)
(*  - A timeline sample is a time in units of 1/(SAMPLING_RATE*TimeSub) s. *)
(*  - A Python value that is either the int 0 (the cache sentinels) or a   *)
(*    numpy array is a record [arr, s]: Int0 or Arr(s).                    *)
(*  - A dict key is a tagged sequence: KeyStr(text) or KeyInt(n), so that  *)
(*    '' and 0 are different keys, as in Python.                           *)
(***************************************************************************)
EXTENDS Integers, Sequences, FiniteSets, TLC

VARIABLES bpm, note_length, note_duration, wave_type,
          tl_cash, note_cash, chord_cash, user_track, last, threads

vars == <<bpm, note_length, note_duration, wave_type,
          tl_cash, note_cash, chord_cash, user_track, last, threads>>

----------------------------------------------------------------------------
(* Program constants *)

SAMPLING_RATE == 44100
VOLUME_CORRECTION == 99
Unit == 100
TimeSub == 100
ADSR_ENABLED == TRUE
ADSR_SHARES == <<5, 30, 90>>
ADSR_LEVELS == <<100, 100, 70>>
WaveKinds == {"s", "sq", "t", "sw", "bs"}

\* The pitch table (rionotes/notes.py): name -> frequency in Hz; "0" is silence
NOTES == [n \in {<<"0">>, <<"a4">>, <<"a8">>} |->
             CASE n = <<"0">> -> 0 [] n = <<"a4">> -> 440 [] n = <<"a8">> -> 7040]

(* Bounds of the model *)
MaxSamples == 3
MaxTrackLen == 4
MaxAdsrLen == 22
MaxOps == 1

----------------------------------------------------------------------------
(* Arithmetic helpers *)

Abs(x) == IF x < 0 THEN -x ELSE x

\* Python int(a / b) for b # 0: truncation toward zero
TruncDiv(a, b) ==
    LET q == Abs(a) \div Abs(b)
    IN  IF (a < 0) = (b < 0) THEN q ELSE -q

RECURSIVE SeqMax(_)
SeqMax(s) == IF Len(s) = 1 THEN s[1]
             ELSE LET m == SeqMax(Tail(s)) IN IF s[1] > m THEN s[1] ELSE m

RECURSIVE SeqSum(_)
SeqSum(s) == IF s = <<>> THEN 0 ELSE s[1] + SeqSum(Tail(s))

----------------------------------------------------------------------------
(* Python values *)

Int0 == [arr |-> FALSE, s |-> <<>>]
Arr(s) == [arr |-> TRUE, s |-> s]

KeyStr(text) == <<"str">> \o text
KeyInt(n) == <<"int", n>>

Zeros(n) == [i \in 1..n |-> 0]
AllZero(s) == \A i \in 1..Len(s) : s[i] = 0

----------------------------------------------------------------------------
(* str.split(sep) on a token sequence: the list of pieces *)

RECURSIVE Split(_, _)
Split(text, sep) ==
    IF \A i \in 1..Len(text) : text[i] # sep
    THEN <<text>>
    ELSE LET p == CHOOSE i \in 1..Len(text) :
                     /\ text[i] = sep
                     /\ \A j \in 1..(i - 1) : text[j] # sep
         IN  <<SubSeq(text, 1, p - 1)>> \o Split(SubSeq(text, p + 1, Len(text)), sep)

Whitespace == {"\n", " "}

RECURSIVE LStrip(_)
LStrip(text) == IF text # <<>> /\ text[1] \in Whitespace THEN LStrip(Tail(text)) ELSE text

RECURSIVE RStrip(_)
RStrip(text) ==
    IF text # <<>> /\ text[Len(text)] \in Whitespace
    THEN RStrip(SubSeq(text, 1, Len(text) - 1)) ELSE text

Strip(text) == RStrip(LStrip(text))

Replace(text, old, new) == [i \in 1..Len(text) |-> IF text[i] = old THEN new ELSE text[i]]

----------------------------------------------------------------------------
(* numpy helpers *)

\* np.linspace(start, stop, num) for num >= 0
Linspace(start, stop, num) ==
    [i \in 1..num |-> IF num = 1 THEN start
                      ELSE start + TruncDiv((i - 1) * (stop - start), num - 1)]

\* a + b on numpy arrays / the int 0, with broadcasting
NpAdd(a, b) ==
    CASE ~a.arr /\ ~b.arr -> [err |-> "", wave |-> Int0]
      [] ~a.arr /\ b.arr  -> [err |-> "", wave |-> b]
      [] a.arr /\ ~b.arr  -> [err |-> "", wave |-> a]
      [] OTHER ->
           IF Len(a.s) = Len(b.s)
           THEN [err |-> "", wave |-> Arr([i \in 1..Len(a.s) |-> a.s[i] + b.s[i]])]
           ELSE IF Len(a.s) = 1
           THEN [err |-> "", wave |-> Arr([i \in 1..Len(b.s) |-> a.s[1] + b.s[i]])]
           ELSE IF Len(b.s) = 1
           THEN [err |-> "", wave |-> Arr([i \in 1..Len(a.s) |-> a.s[i] + b.s[1]])]
           ELSE [err |-> "ValueError", wave |-> Int0]

\* np.concatenate((a, b)): zero-dimensional operands are rejected
NpConcatenate(a, b) ==
    IF a.arr /\ b.arr THEN [err |-> "", wave |-> Arr(a.s \o b.s)]
    ELSE [err |-> "ValueError", wave |-> Int0]

----------------------------------------------------------------------------
(* wave_functions.py *)

\* one period in time units, times the frequency
Period == SAMPLING_RATE * TimeSub

\* timeline % (1 / frequency) * frequency, as a fraction of Period
Phase(t, frequency) == (t * frequency) % Period

\* sin(pi * h / (Period / 2)) in 1/Unit for a half-period position h (per mille)
HalfSine(h) == TruncDiv(16 * Unit * h * (500 - h), 5 * 500 * 500 - 4 * h * (500 - h))

generate_wave_sine(timeline, frequency) ==
    [i \in 1..Len(timeline) |->
        LET y == (Phase(timeline[i], frequency) * 10) \div (Period \div 100)
        IN  IF y <= 500 THEN HalfSine(y) ELSE -HalfSine(y - 500)]

generate_wave_square(timeline, frequency) ==
    [i \in 1..Len(timeline) |->
        (((2 * timeline[i] * frequency) \div Period) % 2) * 2 * Unit - Unit]

generate_wave_triangular(timeline, frequency) ==
    [i \in 1..Len(timeline) |->
        LET raw_triangle == TruncDiv(Phase(timeline[i], frequency) * Unit, Period) - Unit
            folded_triangle == Abs(raw_triangle) * 2 - Unit
        IN  Abs(folded_triangle) * 2 - Unit]

generate_wave_saw(timeline, frequency) ==
    [i \in 1..Len(timeline) |->
        TruncDiv(Phase(timeline[i], frequency) * 2 * Unit, Period) - Unit]

generate_wave_backsaw(timeline, frequency) ==
    [i \in 1..Len(timeline) |->
        TruncDiv(Phase(-timeline[i], frequency) * 2 * Unit, Period) - Unit]

WAVE_FUNCTIONS(kind, timeline, frequency) ==
    CASE kind = "s"  -> generate_wave_sine(timeline, frequency)
      [] kind = "sq" -> generate_wave_square(timeline, frequency)
      [] kind = "t"  -> generate_wave_triangular(timeline, frequency)
      [] kind = "sw" -> generate_wave_saw(timeline, frequency)
      [] kind = "bs" -> generate_wave_backsaw(timeline, frequency)

apply_linearity(array, start_ratio, end_ratio) ==
    LET multipliers == Linspace(start_ratio, end_ratio, Len(array))
    IN  [i \in 1..Len(array) |-> TruncDiv(array[i] * multipliers[i], Unit)]

\* normalize_wave without VOLUME_CORRECTION
normalize_wave_to_one(wave) ==
    IF ~wave.arr THEN [err |-> "", wave |-> wave, same |-> TRUE]
    ELSE IF wave.s = <<>> THEN [err |-> "ValueError", wave |-> wave, same |-> FALSE]
    ELSE IF AllZero(wave.s) THEN [err |-> "", wave |-> wave, same |-> TRUE]
    ELSE [err |-> "", same |-> FALSE,
          wave |-> Arr([i \in 1..Len(wave.s) |->
                  TruncDiv(wave.s[i] * Unit,
                           SeqMax([j \in 1..Len(wave.s) |-> Abs(wave.s[j])]))])]

\* normalize_wave: [err, wave, same]; same = the input object itself is returned
normalize_wave(wave) ==
    IF ~wave.arr THEN [err |-> "", wave |-> wave, same |-> TRUE]
    ELSE IF wave.s = <<>> THEN [err |-> "ValueError", wave |-> wave, same |-> FALSE]
    ELSE LET divisor == SeqMax([i \in 1..Len(wave.s) |-> Abs(wave.s[i])])
         IN  IF divisor = 0 THEN [err |-> "", wave |-> wave, same |-> TRUE]
             ELSE [err |-> "", same |-> FALSE,
                   wave |-> Arr([i \in 1..Len(wave.s) |->
                       TruncDiv(TruncDiv(wave.s[i] * Unit, divisor) * VOLUME_CORRECTION,
                                Unit)])]

----------------------------------------------------------------------------
(* wave_objects.py: the caches and the constructors.                       *)
(* A context c = [tl, note, chord, notes, wfs, tls, ntimes] carries the    *)
(* three wave_cash dicts through one operation together with the counts of *)
(* Note constructions, wave-function calls and Timeline computations it    *)
(* made, and the set of repeat counts its Notes were constructed with.     *)
(* Every constructor returns [err, obj, c]: err = "" when it returns       *)
(* normally, else the name of the exception it raises; c is the context    *)
(* as the constructor left it (writes made before a raise are kept).       *)

Put(dict, key, value) == (key :> value) @@ dict
Has(dict, key) == key \in DOMAIN dict

Ctx(tl, note, chord) ==
    [tl |-> tl, note |-> note, chord |-> chord,
     notes |-> 0, wfs |-> 0, tls |-> 0, ntimes |-> {}]

NoRef == <<>>

Raise(name, c) == [err |-> name, obj |-> [wave |-> Int0, ref |-> NoRef, times |-> 0], c |-> c]
Return(wave, ref, times, c) ==
    [err |-> "", obj |-> [wave |-> wave, ref |-> ref, times |-> times], c |-> c]

\* reset_cashes
ResetCash == (KeyInt(0) :> Int0)
\* the class attribute wave_cash = {'': 0}
InitialCash == (KeyStr(<<>>) :> Int0)

\* the model builds no array of more than MaxSamples samples: an operation
\* that needs one ends with TooBig, and no action takes such a step
TooBig == "TooBig"

\* Timeline.__init__ with one note length whatever times is
Timeline_single(c, times) ==
    IF Has(c.tl, KeyInt(times))
    THEN Return(c.tl[KeyInt(times)], NoRef, times, c)
    ELSE IF note_length < 0 THEN Raise("ValueError", c)
    ELSE IF note_length > MaxSamples THEN Raise(TooBig, c)
    ELSE Return(Arr(Linspace(0, note_duration, note_length)), NoRef, times,
                [c EXCEPT !.tl = Put(@, KeyInt(times),
                                     Arr(Linspace(0, note_duration, note_length))),
                          !.tls = @ + 1])

\* Timeline.__init__
Timeline(c, times) ==
    IF Has(c.tl, KeyInt(times))
    THEN Return(c.tl[KeyInt(times)], NoRef, times, c)
    ELSE LET duration == note_duration * times
             length == note_length * times
         IN  IF length < 0 THEN Raise("ValueError", c)
             ELSE IF length > MaxSamples THEN Raise(TooBig, c)
             ELSE LET wave == Arr(Linspace(0, duration, length))
                  IN  Return(wave, NoRef, times,
                             [c EXCEPT !.tl = Put(@, KeyInt(times), wave), !.tls = @ + 1])

\* NOTES.get(note, '0'): [num, v]; the default is the str '0', which is no number
NotesGet(note) ==
    IF note \in DOMAIN NOTES THEN [num |-> TRUE, v |-> NOTES[note]]
    ELSE [num |-> FALSE, v |-> 0]

\* Note.__init__ storing the zero waveform of a frequency 0 as well
NoteMiss_caching_silence(tl, label, frequency, times) ==
    IF tl.err # "" THEN Raise(tl.err, tl.c)
    ELSE IF frequency.num /\ frequency.v = 0
    THEN Return(Arr(Zeros(Len(tl.obj.wave.s))), NoRef, times,
                [tl.c EXCEPT !.note = Put(@, label, Arr(Zeros(Len(tl.obj.wave.s))))])
    ELSE IF wave_type \notin WaveKinds THEN Raise("KeyError", tl.c)
    ELSE IF ~frequency.num THEN Raise("TypeError", [tl.c EXCEPT !.wfs = @ + 1])
    ELSE Return(Arr(WAVE_FUNCTIONS(wave_type, tl.obj.wave.s, frequency.v)), NoRef, times,
                [tl.c EXCEPT !.wfs = @ + 1,
                             !.note = Put(@, label,
                                 Arr(WAVE_FUNCTIONS(wave_type, tl.obj.wave.s, frequency.v)))])

\* Note.__init__ after the cache miss, tl being the outcome of Timeline(times)
NoteMiss(tl, label, frequency, times) ==
    IF tl.err # "" THEN Raise(tl.err, tl.c)
    ELSE IF frequency.num /\ frequency.v = 0
    THEN Return(Arr(Zeros(Len(tl.obj.wave.s))), NoRef, times, tl.c)
    ELSE IF wave_type \notin WaveKinds THEN Raise("KeyError", tl.c)
    ELSE IF ~frequency.num THEN Raise("TypeError", [tl.c EXCEPT !.wfs = @ + 1])
    ELSE Return(Arr(WAVE_FUNCTIONS(wave_type, tl.obj.wave.s, frequency.v)), NoRef, times,
                [tl.c EXCEPT !.wfs = @ + 1,
                             !.note = Put(@, label,
                                 Arr(WAVE_FUNCTIONS(wave_type, tl.obj.wave.s, frequency.v)))])

\* the context with one more Note construction counted
Counted(c, times) == [c EXCEPT !.notes = @ + 1, !.ntimes = @ \cup {times}]

\* the key '{0}-{1}'.format(note, times)
NoteLabel(note, times) == KeyStr(note \o <<"-", times>>)

\* Note.__init__ (times >= 1, so the Timeline is an array and never the
\* sentinel value of the key 0)
Note(c, note, times) ==
    IF Has(c.note, NoteLabel(note, times))
    THEN Return(c.note[NoteLabel(note, times)], NoRef, times, Counted(c, times))
    ELSE NoteMiss(Timeline(Counted(c, times), times), NoteLabel(note, times),
                  NotesGet(note), times)

\* Note.__add__, note being the outcome of Note('0', self.times)
NoteAddTo(note, added, times) ==
    IF note.err # "" THEN Raise(note.err, note.c)
    ELSE IF added.err # "" THEN Raise(added.err, note.c)
    ELSE Return(added.wave, NoRef, times, note.c)

\* Note.__add__
NoteAdd(c, self, other) ==
    NoteAddTo(Note(c, <<"0">>, self.times), NpAdd(self.wave, other.wave), self.times)

\* a list outcome [err, objs, c] with obj put in front
Cons(obj, rest) == [rest EXCEPT !.objs = <<obj>> \o @]

\* [Note(note, times) for note in note_list]: [err, objs, c]
RECURSIVE NoteList(_, _, _)
NoteListFrom(n, note_list, times) ==
    IF n.err # "" THEN [err |-> n.err, objs |-> <<>>, c |-> n.c]
    ELSE Cons(n.obj, NoteList(n.c, note_list, times))

NoteList(c, note_list, times) ==
    IF note_list = <<>> THEN [err |-> "", objs |-> <<>>, c |-> c]
    ELSE NoteListFrom(Note(c, note_list[1], times), Tail(note_list), times)

\* sum(notes): 0 + notes[0] is notes[0] (__radd__), then __add__ left to right
RECURSIVE SumNotes(_, _, _)
SumNotesFrom(r, notes) ==
    IF r.err # "" THEN r ELSE SumNotes(r.c, r.obj, notes)

SumNotes(c, acc, notes) ==
    IF notes = <<>> THEN [err |-> "", obj |-> acc, c |-> c]
    ELSE SumNotesFrom(NoteAdd(c, acc, notes[1]), Tail(notes))

\* np.split with the first segment running one sample into the second
NpSplit4_overlapping(s, points) ==
    << SubSeq(s, 1, points[1] + 1), SubSeq(s, points[1] + 1, points[2]),
       SubSeq(s, points[2] + 1, points[3]), SubSeq(s, points[3] + 1, Len(s)) >>

\* np.split(wave, points): the four segments
NpSplit4(s, points) ==
    << SubSeq(s, 1, points[1]), SubSeq(s, points[1] + 1, points[2]),
       SubSeq(s, points[2] + 1, points[3]), SubSeq(s, points[3] + 1, Len(s)) >>

\* Chord.apply_adsr, on the samples of self.wave and the four segments
ShapeSegments(parts) ==
    apply_linearity(parts[1], 0, ADSR_LEVELS[1])
    \o apply_linearity(parts[2], ADSR_LEVELS[1], ADSR_LEVELS[2])
    \o apply_linearity(parts[3], ADSR_LEVELS[2], ADSR_LEVELS[3])
    \o apply_linearity(parts[4], ADSR_LEVELS[3], 0)

\* adsr_points with round(share * len(self.wave)), halves up
AdsrPoints_rounding(n) == [k \in 1..3 |-> TruncDiv(2 * ADSR_SHARES[k] * n + Unit, 2 * Unit)]

\* adsr_points
AdsrPoints(n) == [k \in 1..3 |-> TruncDiv(ADSR_SHARES[k] * n, Unit)]

\* Chord.apply_adsr
apply_adsr(s) == ShapeSegments(NpSplit4(s, AdsrPoints(Len(s))))

\* Chord.__init__: Chord.wave_cash[text] = normalize_wave(self.wave)
ChordStore(text, normal, c) ==
    IF normal.err # "" THEN Raise(normal.err, c)
    ELSE Return(normal.wave, KeyStr(text), 0,
                [c EXCEPT !.chord = Put(@, KeyStr(text), normal.wave)])

\* Chord.__init__ from self.wave = sum(notes).wave on
ChordShape(text, total) ==
    IF total.err # "" THEN Raise(total.err, total.c)
    ELSE ChordStore(text,
                    normalize_wave(IF ADSR_ENABLED THEN Arr(apply_adsr(total.obj.wave.s))
                                   ELSE total.obj.wave),
                    total.c)

\* Chord.__init__ after the cache miss, notes being the outcome of the list
ChordMiss(text, notes) ==
    IF notes.err # "" THEN Raise(notes.err, notes.c)
    ELSE ChordShape(text, SumNotes(notes.c, notes.objs[1], Tail(notes.objs)))

\* Chord.__init__ without the lookup of text in Chord.wave_cash
Chord_uncached(c, text) ==
    ChordMiss(text, NoteList(c, Split(Split(text, "-")[1], "*"), Len(Split(text, "-"))))

\* Chord.__init__
Chord(c, text) ==
    LET pieces == Split(text, "-")
        label == pieces[1]
        tail == Tail(pieces)
        times == Len(tail) + 1
        note_list == Split(label, "*")
    IN  IF Has(c.chord, KeyStr(text))
        THEN Return(c.chord[KeyStr(text)], KeyStr(text), 0, c)
        ELSE ChordMiss(text, NoteList(c, note_list, times))

\* Chord.__add__, chord being the outcome of Chord('0')
ChordAddTo(chord, joined) ==
    IF chord.err # "" THEN Raise(chord.err, chord.c)
    ELSE IF joined.err # "" THEN Raise(joined.err, chord.c)
    ELSE Return(joined.wave, NoRef, 0, chord.c)

\* Chord.__add__ with self.wave + other.wave for the concatenation
ChordAdd_mixing(c, self, other) ==
    ChordAddTo(Chord(c, <<"0">>), NpAdd(self.wave, other.wave))

\* Chord.__add__
ChordAdd(c, self, other) ==
    ChordAddTo(Chord(c, <<"0">>), NpConcatenate(self.wave, other.wave))

\* [Chord(chord) for chord in chords_list]: [err, objs, c]
RECURSIVE ChordList(_, _)
ChordListFrom(ch, chords_list) ==
    IF ch.err # "" THEN [err |-> ch.err, objs |-> <<>>, c |-> ch.c]
    ELSE Cons(ch.obj, ChordList(ch.c, chords_list))

ChordList(c, chords_list) ==
    IF chords_list = <<>> THEN [err |-> "", objs |-> <<>>, c |-> c]
    ELSE ChordListFrom(Chord(c, chords_list[1]), Tail(chords_list))

\* sum(chords): 0 + chords[0] is chords[0] (__radd__), then __add__ left to right
RECURSIVE SumChords(_, _, _)
SumChordsFrom(r, chords) ==
    IF r.err # "" THEN r ELSE SumChords(r.c, r.obj, chords)

SumChords(c, acc, chords) ==
    IF chords = <<>> THEN [err |-> "", obj |-> acc, c |-> c]
    ELSE SumChordsFrom(ChordAdd(c, acc, chords[1]), Tail(chords))

\* self.wave = normalize_wave(wave): the Track keeps the reference of wave
\* when normalize_wave returns its argument, and owns a new array otherwise
Assigned(normal, wave, ref, c) ==
    IF normal.err # "" THEN Raise(normal.err, c)
    ELSE Return(normal.wave, IF normal.same /\ wave.arr THEN ref ELSE NoRef, 0, c)

Normalized(wave, ref, c) == Assigned(normalize_wave(wave), wave, ref, c)

\* Track.__init__ with self.wave = sum(chords).wave
TrackWave_unnormalized(total) ==
    IF total.err # "" THEN Raise(total.err, total.c)
    ELSE Return(total.obj.wave, total.obj.ref, 0, total.c)

\* Track.__init__: self.wave = normalize_wave(sum(chords).wave)
TrackWave(total) ==
    IF total.err # "" THEN Raise(total.err, total.c)
    ELSE Normalized(total.obj.wave, total.obj.ref, total.c)

\* Track.__init__ from sum(chords) on, chords being the outcome of the list
TrackSum(chords) ==
    IF chords.err # "" THEN Raise(chords.err, chords.c)
    ELSE TrackWave(SumChords(chords.c, chords.objs[1], Tail(chords.objs)))

\* Track.__init__
Track(c, notes) ==
    TrackSum(ChordList(c, Split(Replace(Strip(notes), "\n", "+"), "+")))

\* Track.__add__, track being the outcome of Track('0')
TrackAddTo(track, joined) ==
    IF track.err # "" THEN Raise(track.err, track.c)
    ELSE IF joined.err # "" THEN Raise(joined.err, track.c)
    ELSE Return(joined.wave, NoRef, 0, track.c)

\* Track.__add__
TrackAdd(c, self, other) ==
    TrackAddTo(Track(c, <<"0">>), NpConcatenate(self.wave, other.wave))

\* Track.__mul__, track being the outcome of Track('0')
TrackMulTo(track, mixed) ==
    IF track.err # "" THEN Raise(track.err, track.c)
    ELSE IF mixed.err # "" THEN Raise(mixed.err, track.c)
    ELSE Normalized(mixed.wave, NoRef, track.c)

\* Track.__mul__
TrackMul(c, self, other) ==
    TrackMulTo(Track(c, <<"0">>), NpAdd(self.wave, other.wave))

\* np.mean(neighbors) for a non-empty window
Mean(neighbors) == TruncDiv(SeqSum(neighbors), Len(neighbors))

\* for index in range(index, len(tmp_wave) - wing): tmp_wave is a view of
\* self.wave, so each assignment is visible to the windows read after it
RECURSIVE SmoothPass(_, _, _)
SmoothPass(s, index, wing) ==
    IF index >= Len(s) - wing THEN s
    ELSE SmoothPass([s EXCEPT ![index + 1] = Mean(SubSeq(s, index - wing + 1, index + wing))],
                    index + 1, wing)

RECURSIVE SmoothPasses(_, _, _)
SmoothPasses(s, times, wing) ==
    IF times = 0 THEN s ELSE SmoothPasses(SmoothPass(s, wing, wing), times - 1, wing)

\* Track.smooth (wing >= 1): [err, wave, ref, buf]; buf is what the array that
\* self.wave referred to at the call holds afterwards
TrackSmooth(self, times, wing) ==
    IF ~self.wave.arr /\ times > 0
    THEN [err |-> "TypeError", wave |-> self.wave, ref |-> self.ref, buf |-> self.wave]
    ELSE LET buf == IF self.wave.arr THEN Arr(SmoothPasses(self.wave.s, times, wing))
                    ELSE self.wave
             normal == normalize_wave(buf)
         IN  [err |-> normal.err, buf |-> buf,
              wave |-> normal.wave,
              ref |-> IF normal.same /\ buf.arr THEN self.ref ELSE NoRef]

\* random_shift(numbers, distance), shifts being the draws of np.random.rand
random_shift(numbers, distance, shifts) ==
    [i \in 1..Len(numbers) |->
        LET shift == Unit + TruncDiv(distance * (shifts[i] * 2 - Unit), Unit)
        IN  TruncDiv(numbers[i] * shift, Unit)]

\* Track.distort: [err, wave]
TrackDistort(self, distance, shifts) ==
    IF ~self.wave.arr THEN [err |-> "TypeError", wave |-> self.wave]
    ELSE LET normal == normalize_wave(Arr(random_shift(self.wave.s, distance, shifts)))
         IN  [err |-> normal.err, wave |-> normal.wave]

----------------------------------------------------------------------------
(* State: Config, the three wave_cash dicts, the caller's Track variable   *)
(* and the outcome of the last operation.  user_track.ops counts the       *)
(* operator applications (+, *, smooth, distort) the Track went through.   *)
(* The outcome of a Config call that reset the caches carries, after the   *)
(* new value, the Chord cache it dropped.                                  *)

NoTrack == [live |-> FALSE, wave |-> Int0, ref |-> NoRef, ops |-> 0]
TrackOf(obj, ops) == [live |-> TRUE, wave |-> obj.wave, ref |-> obj.ref, ops |-> ops]

WaveLen(wave) == IF wave.arr THEN Len(wave.s) ELSE -1

Cur == Ctx(tl_cash, note_cash, chord_cash)

Outcome(op, arg, r) ==
    [op |-> op, arg |-> arg, err |-> r.err, wave |-> r.obj.wave,
     notes |-> r.c.notes, wfs |-> r.c.wfs, tls |-> r.c.tls, ntimes |-> r.c.ntimes]

PlainOutcome(op, arg, err, wave) ==
    [op |-> op, arg |-> arg, err |-> err, wave |-> wave,
     notes |-> 0, wfs |-> 0, tls |-> 0, ntimes |-> {}]

\* the threads of a program that shares the module between two threads;
\* each makes one construction, and its record keeps what the frame of
\* __init__ holds between the computation and the store: the cache key,
\* the waveform, the number of wave function calls that made it, the Config
\* the computation read, and whether the store found another Config
Threads == {1, 2}

Config == <<note_length, note_duration, wave_type>>

IdleThread ==
    [pc |-> "idle", key |-> <<>>, wave |-> Int0, wfs |-> 0,
     cfg |-> <<>>, crossed |-> FALSE]

Computed(pc, key, r) ==
    [pc |-> pc, key |-> key, wave |-> r.obj.wave, wfs |-> r.c.wfs,
     cfg |-> Config, crossed |-> FALSE]

Finished(th) == [th EXCEPT !.pc = "done", !.crossed = (th.cfg # Config)]

Init ==
    /\ bpm = 144
    /\ note_length = 18375
    /\ note_duration = 18375 * TimeSub
    /\ wave_type = "t"
    /\ tl_cash = InitialCash
    /\ note_cash = InitialCash
    /\ chord_cash = InitialCash
    /\ user_track = NoTrack
    /\ last = PlainOutcome("init", <<>>, "", Int0)
    /\ threads = [t \in Threads |-> IdleThread]

\* the caches as an operation left them
Caches(c) ==
    /\ tl_cash' = c.tl
    /\ note_cash' = c.note
    /\ chord_cash' = c.chord

\* reset_cashes leaving Chord.wave_cash as it is
reset_cashes_keeping_chords ==
    /\ tl_cash' = ResetCash
    /\ note_cash' = ResetCash
    /\ chord_cash' = chord_cash
    /\ user_track' = user_track

\* reset_cashes leaving Note.wave_cash as it is
reset_cashes_keeping_notes ==
    /\ tl_cash' = ResetCash
    /\ note_cash' = note_cash
    /\ chord_cash' = ResetCash
    /\ user_track' = [user_track EXCEPT !.ref = NoRef]

\* reset_cashes: the array a Track refers to is no longer a cache entry
reset_cashes ==
    /\ tl_cash' = ResetCash
    /\ note_cash' = ResetCash
    /\ chord_cash' = ResetCash
    /\ user_track' = [user_track EXCEPT !.ref = NoRef]

\* Config.set_bpm
set_bpm(new_value) ==
    /\ bpm' = new_value
    /\ UNCHANGED threads
    /\ IF new_value = 0
       THEN /\ UNCHANGED <<note_length, note_duration, wave_type,
                           tl_cash, note_cash, chord_cash, user_track>>
            /\ last' = PlainOutcome("set_bpm", <<new_value>>, "ZeroDivisionError", Int0)
       ELSE /\ note_length' = TruncDiv(SAMPLING_RATE * 60, new_value)
            /\ note_duration' = note_length' * TimeSub
            /\ reset_cashes
            /\ UNCHANGED wave_type
            /\ last' = PlainOutcome("set_bpm", <<new_value, chord_cash>>, "", Int0)

\* Config.set_wave
set_wave(new_value) ==
    /\ wave_type' = new_value
    /\ reset_cashes
    /\ UNCHANGED <<bpm, note_length, note_duration, threads>>
    /\ last' = PlainOutcome("set_wave", <<new_value, chord_cash>>, "", Int0)

----------------------------------------------------------------------------
(* Inputs *)

BpmInputs == {-1, 0, 1323000, 2646000}
WaveInputs == {"sq", "t", "x"}
NoteNames == {<<"0">>, <<"a4">>, <<"zz">>}
NoteTimes == {1, 2}
ChordTexts == { <<>>, <<"0">>, <<"a4">>, <<"a4", "-">>, <<"a4", "*", "a8">>, <<"zz">> }
TrackTexts == { <<>>, <<"0">>, <<"a4">>, <<"a4", "-">>, <<"a4", "+", "0">>,
                <<"+", "a4">>, <<"a4", "\n", "a8", "\n">> }
SmoothTimes == {1, 2}
SmoothWings == {1}
Distances == {50}
RandDraws == {0, 99}
\* the inputs of the specification of the Track operators
TrackBpmInputs == {1323000, 2646000}
TrackWaveInputs == {"sq"}
TrackChordTexts == { <<"0">>, <<"a4">> }
TrackVarTexts == { <<>>, <<"0", "-", "-">>, <<"a4">>, <<"a4", "-", "-">>,
                   <<"a4", "+", "0">> }
OperandTexts == { <<>>, <<"0">>, <<"a4">>, <<"a4", "-">> }

\* the inputs of the specification of the envelope: self.wave of n samples
\* rising from first by step, and the note length of bpm 144 for the points
AdsrFirsts == {-100, 0, 100}
AdsrSteps == {0, 3}
AdsrPointLens == (1..MaxAdsrLen) \cup {18375}
Ramp(n, first, step) == [i \in 1..n |-> first + (i - 1) * step]

----------------------------------------------------------------------------
(* Operations *)

\* the step of an operation whose outcome is r
Step(op, arg, r) ==
    /\ r.err # TooBig
    /\ Caches(r.c)
    /\ last' = Outcome(op, arg, r)
    /\ UNCHANGED threads

\* Note(note, times)
NewNote(note, times) ==
    /\ Step("Note", <<note, times>>, Note(Cur, note, times))
    /\ UNCHANGED <<bpm, note_length, note_duration, wave_type, user_track>>

\* Chord(text)
NewChord(text) ==
    /\ Step("Chord", text, Chord(Cur, text))
    /\ UNCHANGED <<bpm, note_length, note_duration, wave_type, user_track>>

\* Track(text), the object being dropped by the caller
BuildTrack(text) ==
    /\ Step("Track", text, Track(Cur, text))
    /\ UNCHANGED <<bpm, note_length, note_duration, wave_type, user_track>>

\* the step of an operation that assigns its result r, if any, to the variable
Assign(op, arg, r, ops) ==
    /\ Step(op, arg, r)
    /\ WaveLen(r.obj.wave) <= MaxTrackLen
    /\ user_track' = IF r.err = "" THEN TrackOf(r.obj, ops) ELSE user_track

\* track = Track(text)
NewTrack(text) ==
    /\ Assign("Track", text, Track(Cur, text), 0)
    /\ UNCHANGED <<bpm, note_length, note_duration, wave_type>>

\* the sample counts of the operands of a binary operator (-1: the int 0,
\* -2: the right operand was not constructed)
Operands(text, other) ==
    <<text, WaveLen(user_track.wave),
      IF other.err = "" THEN WaveLen(other.obj.wave) ELSE -2>>

\* track + other, other being the outcome of Track(text)
AddTo(text, other) ==
    Assign("Add", Operands(text, other),
           IF other.err # "" THEN other ELSE TrackAdd(other.c, user_track, other.obj),
           user_track.ops + 1)

\* track = track + Track(text)
AddTrack(text) ==
    /\ user_track.live /\ user_track.ops < MaxOps
    /\ AddTo(text, Track(Cur, text))
    /\ UNCHANGED <<bpm, note_length, note_duration, wave_type>>

\* track * other, other being the outcome of Track(text)
MulTo(text, other) ==
    Assign("Mul", Operands(text, other),
           IF other.err # "" THEN other ELSE TrackMul(other.c, user_track, other.obj),
           user_track.ops + 1)

\* track = track * Track(text)
MulTrack(text) ==
    /\ user_track.live /\ user_track.ops < MaxOps
    /\ MulTo(text, Track(Cur, text))
    /\ UNCHANGED <<bpm, note_length, note_duration, wave_type>>

\* track.smooth(times, wing): the writes go to the array the Track refers
\* to, which is a Chord cache entry when user_track.ref names one
Smoothed(times, wing, r) ==
    /\ user_track' = [live |-> TRUE, wave |-> r.wave, ref |-> r.ref,
                      ops |-> user_track.ops + 1]
    /\ chord_cash' = IF user_track.ref # NoRef
                     THEN [chord_cash EXCEPT ![user_track.ref] = r.buf]
                     ELSE chord_cash
    /\ last' = PlainOutcome("smooth", <<times, wing>>, r.err, r.wave)
    /\ UNCHANGED <<bpm, note_length, note_duration, wave_type,
                   tl_cash, note_cash, threads>>

SmoothTrack(times, wing) ==
    /\ user_track.live /\ user_track.ops < MaxOps
    /\ Smoothed(times, wing, TrackSmooth(user_track, times, wing))

\* track.distort(distance)
Distorted(distance, r) ==
    /\ user_track' = IF r.err = ""
                     THEN [live |-> TRUE, wave |-> r.wave, ref |-> NoRef,
                           ops |-> user_track.ops + 1]
                     ELSE user_track
    /\ last' = PlainOutcome("distort", <<distance>>, r.err, r.wave)
    /\ UNCHANGED <<bpm, note_length, note_duration, wave_type,
                   tl_cash, note_cash, chord_cash, threads>>

DistortTrack(distance, shifts) ==
    /\ user_track.live /\ user_track.ops < MaxOps
    /\ Len(shifts) = (IF user_track.wave.arr THEN Len(user_track.wave.s) ELSE 0)
    /\ Distorted(distance, TrackDistort(user_track, distance, shifts))

\* adsr_points of Chord.apply_adsr for a wave of n samples; the outcome
\* carries the list of the three points
AdsrPointsOf(n) ==
    /\ last' = PlainOutcome("adsr_points", <<n>>, "", Arr(AdsrPoints(n)))
    /\ UNCHANGED <<bpm, note_length, note_duration, wave_type,
                   tl_cash, note_cash, chord_cash, user_track, threads>>

\* chord.apply_adsr() on a Chord whose wave holds the samples s; the outcome
\* carries s and the new self.wave
ApplyAdsr(s) ==
    /\ last' = PlainOutcome("apply_adsr", s, "", Arr(apply_adsr(s)))
    /\ UNCHANGED <<bpm, note_length, note_duration, wave_type,
                   tl_cash, note_cash, chord_cash, user_track, threads>>

\* Note.__init__ in thread t up to the store: the lookup misses, the
\* Timeline is built and cached, the wave function is called
ComputeNote(t, label, r) ==
    /\ threads[t].pc = "idle"
    /\ r.err = ""
    /\ ~Has(note_cash, label) /\ Has(r.c.note, label)
    /\ tl_cash' = r.c.tl
    /\ threads' = [threads EXCEPT ![t] = Computed("store_note", label, r)]
    /\ last' = Outcome("ComputeNote", <<t, label>>, r)
    /\ UNCHANGED <<bpm, note_length, note_duration, wave_type,
                   note_cash, chord_cash, user_track>>

BeginNote(t, note, times) ==
    ComputeNote(t, NoteLabel(note, times), Note(Cur, note, times))

\* Note.wave_cash[label] = wave in thread t: the class attribute is read
\* at the store, so the entry goes to the dict that is current then
StoreNote(t) ==
    /\ threads[t].pc = "store_note"
    /\ note_cash' = Put(note_cash, threads[t].key, threads[t].wave)
    /\ threads' = [threads EXCEPT ![t] = Finished(@)]
    /\ last' = PlainOutcome("StoreNote", <<t>>, "", threads[t].wave)
    /\ UNCHANGED <<bpm, note_length, note_duration, wave_type,
                   tl_cash, chord_cash, user_track>>

\* Chord.__init__ in thread t up to the store: the lookup misses, the
\* Notes are constructed (and cached), summed, shaped and normalized
ComputeChord(t, text, r) ==
    /\ threads[t].pc = "idle"
    /\ r.err = ""
    /\ ~Has(chord_cash, KeyStr(text)) /\ Has(r.c.chord, KeyStr(text))
    /\ tl_cash' = r.c.tl
    /\ note_cash' = r.c.note
    /\ threads' = [threads EXCEPT ![t] = Computed("store_chord", KeyStr(text), r)]
    /\ last' = Outcome("ComputeChord", <<t, text>>, r)
    /\ UNCHANGED <<bpm, note_length, note_duration, wave_type,
                   chord_cash, user_track>>

BeginChord(t, text) == ComputeChord(t, text, Chord(Cur, text))

\* Chord.wave_cash[text] = normalize_wave(self.wave) in thread t
StoreChord(t) ==
    /\ threads[t].pc = "store_chord"
    /\ chord_cash' = Put(chord_cash, threads[t].key, threads[t].wave)
    /\ threads' = [threads EXCEPT ![t] = Finished(@)]
    /\ last' = PlainOutcome("StoreChord", <<t>>, "", threads[t].wave)
    /\ UNCHANGED <<bpm, note_length, note_duration, wave_type,
                   tl_cash, note_cash, user_track>>

\* Config changes and constructions
Next ==
    \/ \E v \in BpmInputs : set_bpm(v)
    \/ \E v \in WaveInputs : set_wave(v)
    \/ \E n \in NoteNames, t \in NoteTimes : NewNote(n, t)
    \/ \E text \in ChordTexts : NewChord(text)
    \/ \E text \in TrackTexts : BuildTrack(text)

Spec == Init /\ [][Next]_vars

\* a Track variable and the operators on it
NextTrack ==
    \/ \E v \in TrackBpmInputs : set_bpm(v)
    \/ \E v \in TrackWaveInputs : set_wave(v)
    \/ \E text \in TrackChordTexts : NewChord(text)
    \/ \E text \in TrackVarTexts : NewTrack(text)
    \/ \E text \in OperandTexts : AddTrack(text)
    \/ \E text \in OperandTexts : MulTrack(text)
    \/ \E t \in SmoothTimes, w \in SmoothWings : SmoothTrack(t, w)
    \/ \E d \in Distances, n \in 0..MaxTrackLen :
          \E shifts \in [1..n -> RandDraws] : DistortTrack(d, shifts)

SpecTrack == Init /\ [][NextTrack]_vars

\* the envelope applied to waves of 1 to MaxAdsrLen samples
NextAdsr ==
    \/ \E n \in AdsrPointLens : AdsrPointsOf(n)
    \/ \E n \in 1..MaxAdsrLen, first \in AdsrFirsts, step \in AdsrSteps :
          ApplyAdsr(Ramp(n, first, step))

SpecAdsr == Init /\ [][NextAdsr]_vars

\* two threads constructing while the Config is changed, without a lock:
\* any step of one thread may come between two steps of another
ThreadNotes == { <<"a4">> }
ThreadTimes == {1}
ThreadChordTexts == { <<"a4">> }

NextThreads ==
    \/ \E v \in TrackBpmInputs : set_bpm(v)
    \/ \E v \in TrackWaveInputs : set_wave(v)
    \/ \E t \in Threads, n \in ThreadNotes, k \in ThreadTimes : BeginNote(t, n, k)
    \/ \E t \in Threads : StoreNote(t)
    \/ \E t \in Threads, text \in ThreadChordTexts : BeginChord(t, text)
    \/ \E t \in Threads : StoreChord(t)

SpecThreads == Init /\ [][NextThreads]_vars

----------------------------------------------------------------------------
(* Properties *)

\* Chord(text) with every cache as reset_cashes leaves it, under the Config
\* of the state
C1_FreshChord(text) == Chord(Ctx(ResetCash, ResetCash, ResetCash), text)

C1_IsFresh(wave, fresh) == fresh.err = "" /\ fresh.obj.wave = wave

\* C1: Config mutation invalidation.  In every state reached by Config
\* changes and Note/Chord/Track constructions, each waveform held by the
\* Chord cache, and each waveform a Chord(text) construction has just
\* returned, is the waveform Chord(text) computes from empty caches under
\* the Config of that state; and right after a successful set_bpm or
\* set_wave none of the chord texts the call dropped is still cached.
C1_ConfigInvalidation ==
    /\ \A key \in DOMAIN chord_cash :
          chord_cash[key].arr => C1_IsFresh(chord_cash[key], C1_FreshChord(Tail(key)))
    /\ (last.op = "Chord" /\ last.err = "" /\ last.wave.arr)
          => C1_IsFresh(last.wave, C1_FreshChord(last.arg))
    /\ (last.op \in {"set_bpm", "set_wave"} /\ last.err = "")
          => \A key \in DOMAIN last.arg[2] : last.arg[2][key].arr => ~Has(chord_cash, key)

C1_Rerequested(stale, again) ==
    /\ stale.arr
    /\ again.err = ""
    /\ again.c.notes = 1
    /\ again.obj.wave # stale
    /\ Len(again.obj.wave.s) = Len(stale.s)

\* C1 witness: set_wave has just returned, the chord a4 was cached before
\* the call, and requesting it again synthesizes a waveform of the same
\* length that differs from the one that was cached.
C1_Witness ==
    /\ last.op = "set_wave" /\ last.err = ""
    /\ Has(last.arg[2], KeyStr(<<"a4">>))
    /\ C1_Rerequested(last.arg[2][KeyStr(<<"a4">>)], Chord(Cur, <<"a4">>))

C2_Hit(text) ==
    Has(chord_cash, KeyStr(text)) =>
        /\ last'.err = ""
        /\ last'.wave = chord_cash[KeyStr(text)]
        /\ last'.notes = 0 /\ last'.wfs = 0 /\ last'.tls = 0
        /\ UNCHANGED <<tl_cash, note_cash, chord_cash>>

C2_Stored(text) ==
    last'.err = "" =>
        /\ Has(chord_cash', KeyStr(text))
        /\ chord_cash'[KeyStr(text)] = last'.wave

\* C2: Chord cache idempotence.  A Chord(text) construction that returns
\* leaves the waveform it returns in the Chord cache under text, and a
\* Chord(text) construction that finds text in the cache (the text was
\* constructed since the last Config change) returns the cached waveform,
\* constructs no Note, calls no wave function, computes no Timeline and
\* leaves the three caches as they were.
C2_ChordIdempotent ==
    [][\A text \in ChordTexts : NewChord(text) => (C2_Hit(text) /\ C2_Stored(text))]_vars

\* C2 witness: Chord(text) has returned a waveform that is not silent
\* without constructing a Note: the second construction of a cached chord.
C2_Witness ==
    /\ last.op = "Chord" /\ last.err = ""
    /\ last.wave.arr /\ ~AllZero(last.wave.s)
    /\ last.notes = 0 /\ last.wfs = 0 /\ last.tls = 0
    /\ chord_cash[KeyStr(last.arg)] = last.wave

C3_InvalidCall ==
    \/ \E v \in BpmInputs : v <= 0 /\ set_bpm(v)
    \/ \E v \in WaveInputs : v \notin WaveKinds /\ set_wave(v)

\* C3: an invalid Config mutation (set_bpm with a value <= 0, set_wave with
\* a tag outside s, sq, t, sw, bs) raises at the call and leaves bpm,
\* note_length, note_duration, wave_type and the three caches as they were.
C3_InvalidMutationAtomic ==
    [][C3_InvalidCall =>
          /\ last'.err # ""
          /\ UNCHANGED <<bpm, note_length, note_duration, wave_type,
                         tl_cash, note_cash, chord_cash>>]_vars

\* C4: under a Config with a positive note length and a known wave kind,
\* Note(name, times) for a name that is no key of the pitch table returns,
\* and its waveform is note_length * times zeros.
C4_UnknownPitchIsSilence ==
    (/\ last.op = "Note"
     /\ last.arg[1] \notin DOMAIN NOTES
     /\ note_length > 0 /\ wave_type \in WaveKinds)
    => /\ last.err = ""
       /\ WaveLen(last.wave) = note_length * last.arg[2]
       /\ AllZero(last.wave.s)

\* C5: track * other, for two constructed tracks whose waveforms differ in
\* sample count (the int 0 of the track of the empty text counting as a
\* count of its own), raises and returns no track.
C5_MixLengthMismatchFails ==
    (last.op = "Mul" /\ last.arg[3] # -2 /\ last.arg[2] # last.arg[3])
    => last.err # ""

C6_HasEmptyChord(text) ==
    \/ text = <<>>
    \/ text[1] = "+"
    \/ text[Len(text)] = "+"
    \/ \E i \in 1..(Len(text) - 1) : text[i] = "+" /\ text[i + 1] = "+"

\* C6: Track(text) for a text that holds an empty chord (the empty text, a
\* leading, trailing or doubled '+') raises, in every state of the caches.
C6_EmptyChordRejected ==
    (last.op = "Track" /\ C6_HasEmptyChord(last.arg)) => last.err # ""

C7_Kept(before, after) ==
    \A key \in DOMAIN before \cap DOMAIN after : after[key] = before[key]

C7_Reset == last'.op \in {"set_bpm", "set_wave"} /\ last'.err = ""

RECURSIVE C8_Dashes(_)
\* the number k of trailing '-' of a chord text
C8_Dashes(text) ==
    IF text # <<>> /\ text[Len(text)] = "-"
    THEN 1 + C8_Dashes(SubSeq(text, 1, Len(text) - 1))
    ELSE 0

C8_PitchList(label) ==
    \A i \in 1..Len(Split(label, "*")) : Split(label, "*")[i] \in DOMAIN NOTES

\* known pitches joined by '*', then trailing '-' only
C8_WellFormed(text) == C8_PitchList(SubSeq(text, 1, Len(text) - C8_Dashes(text)))

C8_Length(text, wave) ==
    (wave.arr /\ C8_WellFormed(text))
    => Len(wave.s) = (C8_Dashes(text) + 1) * note_length

\* C8: the repeat count sets the length.  For a chord text of known pitches
\* joined by '*' and followed by k '-', the waveform Chord(text) returns,
\* and the one the cache holds for it, has (k + 1) * note_length samples,
\* and every Note the construction resolved was given the repeat count k + 1.
C8_RepeatSetsLength ==
    /\ \A key \in DOMAIN chord_cash : C8_Length(Tail(key), chord_cash[key])
    /\ (last.op = "Chord" /\ last.err = "")
          => /\ C8_Length(last.arg, last.wave)
             /\ C8_WellFormed(last.arg) => last.ntimes \subseteq {C8_Dashes(last.arg) + 1}

\* C8 witness: Chord('a4-') has been synthesized: two note lengths of
\* samples, its Note resolved with the repeat count 2.
C8_Witness ==
    /\ last.op = "Chord" /\ last.err = "" /\ last.arg = <<"a4", "-">>
    /\ last.ntimes = {2}
    /\ WaveLen(last.wave) = 2 * note_length
    /\ note_length > 0

C9_Fragments == { <<"0">>, <<"a4">>, <<"a4", "-">>, <<"a4", "*", "a8">> }

C9_Lengths(a, b, whole, sum) ==
    (/\ a.err = "" /\ b.err = "" /\ whole.err = "" /\ sum.err = ""
     /\ a.obj.wave.arr /\ b.obj.wave.arr)
    => /\ WaveLen(whole.obj.wave) = WaveLen(a.obj.wave) + WaveLen(b.obj.wave)
       /\ WaveLen(sum.obj.wave) = WaveLen(whole.obj.wave)

C9_Joined(A, B, a, b) ==
    C9_Lengths(a, b, Track(b.c, A \o <<"+">> \o B), TrackAdd(b.c, a.obj, b.obj))

C9_Pair(A, B, a) == C9_Joined(A, B, a, Track(a.c, B))

\* C9: Track length is additive over concatenation.  In every state, for
\* chord-text fragments A and B, the constructions Track(A), Track(B),
\* Track(A + '+' + B) and Track(A) + Track(B) made in a row, when they all
\* return, give len(Track(A + '+' + B)) = len(Track(A)) + len(Track(B))
\* = len(Track(A) + Track(B)).
C9_LengthAdditive ==
    \A A \in C9_Fragments, B \in C9_Fragments : C9_Pair(A, B, Track(Cur, A))

C9_Sum(a, b) == TrackAdd(b.c, a.obj, b.obj)

C9_SumOf(B, a) == C9_Sum(a, Track(a.c, B))

C9_Same(sum, wave) == sum.err = "" /\ WaveLen(sum.obj.wave) = WaveLen(wave)

\* C9 witness: Track('a4+0') has returned two note lengths of samples, and
\* Track('a4') + Track('0') has that many samples in that state.
C9_Witness ==
    /\ last.op = "Track" /\ last.err = "" /\ last.arg = <<"a4", "+", "0">>
    /\ note_length > 0
    /\ WaveLen(last.wave) = 2 * note_length
    /\ C9_Same(C9_SumOf(<<"0">>, Track(Cur, <<"a4">>)), last.wave)

C10_Peak(s) == SeqMax([i \in 1..Len(s) |-> Abs(s[i])])

C10_InRange(wave) ==
    wave.arr => \A i \in 1..Len(wave.s) : Abs(wave.s[i]) <= VOLUME_CORRECTION

C10_Scaled(wave) ==
    (wave.arr /\ wave.s # <<>> /\ ~AllZero(wave.s)) => C10_Peak(wave.s) = VOLUME_CORRECTION

C10_ZeroKept(zero, normal) == normal.err = "" /\ normal.wave = zero /\ normal.same

C11_AdsrKeepsLength ==
    last.op = "apply_adsr" => (last.wave.arr /\ Len(last.wave.s) = Len(last.arg))

\* C11 witness: apply_adsr has shaped a wave of two samples, whose attack
\* and delay segments are empty, into two other samples.
C11_Witness ==
    /\ last.op = "apply_adsr"
    /\ Len(last.arg) = 2 /\ Len(last.wave.s) = 2
    /\ AdsrPoints(2) = <<0, 0, 1>>
    /\ last.wave.s # last.arg

\* one pass of smoothing that reads every window from the samples as they
\* were at the start of the pass
C12_FreshPass(s, wing) ==
    [i \in 1..Len(s) |->
        IF i > wing /\ i <= Len(s) - wing
        THEN Mean(SubSeq(s, i - wing, i + wing - 1))
        ELSE s[i]]

C12_FromStartOfPass(wing) ==
    last'.wave = normalize_wave(Arr(C12_FreshPass(user_track.wave.s, wing))).wave

\* C12: a smoothing pass reads only the previous pass's buffer.  After
\* track.smooth(1, wing) on a Track holding an array, the waveform is the
\* normalized array in which every interior sample (index in
\* [wing, length - wing)) is the mean of the window [index - wing,
\* index + wing) of the samples as they were before the call, and every
\* boundary sample is as it was.
C12_SmoothReadsPreviousPass ==
    [][\A w \in SmoothWings :
          (SmoothTrack(1, w) /\ user_track.wave.arr) => C12_FromStartOfPass(w)]_vars

\* p = floor(share * n), p = a nearest integer to share * n (share in 1/Unit)
C13_IsFloor(p, share, n) == p * Unit <= share * n /\ share * n < (p + 1) * Unit
C13_IsNearest(p, share, n) == 2 * Abs(share * n - p * Unit) <= Unit

\* the four segments are s cut at the three points, in order
C13_Partition(s, parts, points) ==
    /\ parts[1] \o parts[2] \o parts[3] \o parts[4] = s
    /\ Len(parts[1]) = points[1]
    /\ Len(parts[2]) = points[2] - points[1]
    /\ Len(parts[3]) = points[3] - points[2]
    /\ Len(parts[4]) = Len(s) - points[3]

C13_Split(s, points) == C13_Partition(s, NpSplit4(s, points), points)

\* C13 (amended): the envelope partitions a waveform of n samples into four
\* contiguous, non-overlapping segments whose boundaries are the indices
\* floor(a*n), floor(d*n), floor(s*n) for the shares (0.05, 0.3, 0.9), for
\* every n from 1 to MaxAdsrLen and for n = 18375.
C13_TruncatedBoundaries ==
    /\ last.op = "adsr_points" =>
          \A k \in 1..3 : C13_IsFloor(last.wave.s[k], ADSR_SHARES[k], last.arg[1])
    /\ last.op = "apply_adsr" =>
          /\ C13_Split(last.arg, AdsrPoints(Len(last.arg)))
          /\ \A k \in 1..3 :
                C13_IsFloor(AdsrPoints(Len(last.arg))[k], ADSR_SHARES[k], Len(last.arg))

\* C13 witness: the points of a wave of 18375 samples, the note length at
\* bpm 144, are 918, 5512 and 16537 (rounding gives 919, 5512, 16538).
C13_Witness ==
    /\ last.op = "adsr_points" /\ last.arg = <<18375>>
    /\ last.wave.s = <<918, 5512, 16537>>

\* C13 as stated: the boundaries are the indices round(a*n), round(d*n),
\* round(s*n), whichever way a half is rounded.
C13_RoundedBoundaries ==
    /\ last.op = "adsr_points" =>
          \A k \in 1..3 : C13_IsNearest(last.wave.s[k], ADSR_SHARES[k], last.arg[1])
    /\ last.op = "apply_adsr" =>
          /\ C13_Split(last.arg, AdsrPoints(Len(last.arg)))
          /\ \A k \in 1..3 :
                C13_IsNearest(AdsrPoints(Len(last.arg))[k], ADSR_SHARES[k], Len(last.arg))

C14_Sounding(note) == note \in DOMAIN NOTES /\ NOTES[note] # 0
C14_Silent(note) == note \in DOMAIN NOTES /\ NOTES[note] = 0

C14_Hit(label) ==
    Has(note_cash, label) =>
        /\ last'.err = ""
        /\ last'.wave = note_cash[label]
        /\ last'.wfs = 0 /\ last'.tls = 0
        /\ note_cash' = note_cash

C14_Miss(note, label) ==
    (~Has(note_cash, label) /\ C14_Sounding(note) /\ last'.err = "") =>
        /\ Has(note_cash', label)
        /\ note_cash'[label] = last'.wave
        /\ last'.wfs = 1

C14_Zero(note, label) ==
    C14_Silent(note) =>
        /\ note_cash' = note_cash
        /\ ~Has(note_cash', label)
        /\ last'.wfs = 0
        /\ last'.err = "" => (last'.wave.arr /\ AllZero(last'.wave.s))

C14_NoteStep(note, times) ==
    NewNote(note, times) =>
        /\ C14_Hit(NoteLabel(note, times))
        /\ C14_Miss(note, NoteLabel(note, times))
        /\ C14_Zero(note, NoteLabel(note, times))

C14_NoSilentEntry ==
    \A note \in NoteNames, times \in NoteTimes :
        C14_Silent(note) => ~Has(note_cash, NoteLabel(note, times))

\* C14: Note cache discipline.  Note(pitch, times) for a pitch of non-zero
\* frequency that misses and returns leaves the waveform it returns in the
\* Note cache under the key of (pitch, times), calling one wave function; a
\* construction that finds its key returns the stored waveform, calls no
\* wave function and leaves the Note cache as it was; a construction for a
\* pitch of frequency 0 returns zeros, calls no wave function and adds no
\* entry, and no construction of a Chord or Track adds one for it either.
C14_NoteCacheDiscipline ==
    /\ []C14_NoSilentEntry
    /\ [][\A note \in NoteNames, times \in NoteTimes : C14_NoteStep(note, times)]_vars

\* C14 witness: Note('a4', 1) has returned the stored waveform without a
\* wave-function call or a Timeline computation.
C14_Witness ==
    /\ last.op = "Note" /\ last.err = "" /\ last.arg = << <<"a4">>, 1 >>
    /\ last.wfs = 0 /\ last.tls = 0
    /\ Has(note_cash, NoteLabel(<<"a4">>, 1))
    /\ note_cash[NoteLabel(<<"a4">>, 1)] = last.wave
    /\ last.wave.arr /\ ~AllZero(last.wave.s)

C15_SameOutcome(now, start) == now.err = start.err /\ now.obj.wave = start.obj.wave

\* C15: cache lifecycle.  Right after a reset (a set_bpm or set_wave call
\* that returned) the Timeline, Note and Chord caches are what they were
\* at process start, and Chord('') behaves as it does at process start.
C15_ResetRestoresStart ==
    (last.op \in {"set_bpm", "set_wave"} /\ last.err = "") =>
        /\ tl_cash = InitialCash
        /\ note_cash = InitialCash
        /\ chord_cash = InitialCash
        /\ C15_SameOutcome(Chord(Cur, <<>>),
                           Chord(Ctx(InitialCash, InitialCash, InitialCash), <<>>))

\* q = floor(n / b) for b # 0
C17_IsFloor(q, n, b) ==
    IF b > 0 THEN q * b <= n /\ n < (q + 1) * b
    ELSE q * b >= n /\ n > (q + 1) * b

\* C17: derived Config fields stay consistent.  In every state reached by
\* set_bpm and set_wave calls, those that raise included, note_length is
\* floor(44100 * 60 / bpm) and note_duration is note_length / 44100.
C17_DerivedConfigConsistent ==
    /\ bpm # 0
    /\ C17_IsFloor(note_length, SAMPLING_RATE * 60, bpm)
    /\ note_duration = note_length * TimeSub

C18_Untouched(r) == r.c.tl = tl_cash /\ r.c.note = note_cash /\ r.c.chord = chord_cash

C18_AsNote(wave) == [wave |-> wave, times |-> 1]

\* C18: composition operators have no effect on the caches.  In every
\* state, with the waveform of the Track variable as both operands,
\* Track + Track, Track * Track, Chord + Chord and Note + Note leave the
\* Timeline, Note and Chord caches as they are.
C18_OperatorsLeaveCaches ==
    (user_track.live /\ user_track.wave.arr) =>
        /\ C18_Untouched(TrackAdd(Cur, user_track, user_track))
        /\ C18_Untouched(TrackMul(Cur, user_track, user_track))
        /\ C18_Untouched(ChordAdd(Cur, user_track, user_track))
        /\ C18_Untouched(NoteAdd(Cur, C18_AsNote(user_track.wave), C18_AsNote(user_track.wave)))

----------------------------------------------------------------------------
\* the Note a cache key names, constructed from empty caches
C16_FreshNote(key) ==
    Note(Ctx(ResetCash, ResetCash, ResetCash),
         SubSeq(key, 2, Len(key) - 2), key[Len(key)])

C16_Differs(wave, fresh) == wave.arr /\ ~(fresh.err = "" /\ fresh.obj.wave = wave)

\* a cache entry that the current Config would not have computed
C16_StaleNote(key) == C16_Differs(note_cash[key], C16_FreshNote(key))
C16_StaleChord(key) == C16_Differs(chord_cash[key], C1_FreshChord(Tail(key)))

C16_Stale ==
    \/ \E key \in DOMAIN note_cash : C16_StaleNote(key)
    \/ \E key \in DOMAIN chord_cash : C16_StaleChord(key)

C16_Crossed(t) == threads[t].pc = "done" /\ threads[t].crossed

\* C16: with two threads constructing Notes and Chords while the Config is
\* changed, the Note or Chord cache holds an entry the current Config
\* would not have computed only after some thread stored a waveform it had
\* computed under another Config than the one in force at its store; no
\* other interleaving leaves such an entry.
C16_StaleOnlyByCrossingStore == C16_Stale => \E t \in Threads : C16_Crossed(t)

\* the unsafe state: thread t computed a Note under the previous Config
\* and stored it after the reset, so that the entry of the current Note
\* cache has not note_length * times samples, and thread u has computed the
\* waveform of the same key a second time.
C16_Witness ==
    \E t, u \in Threads :
        /\ t # u
        /\ C16_Crossed(t)
        /\ Has(note_cash, threads[t].key)
        /\ note_cash[threads[t].key] = threads[t].wave
        /\ Len(threads[t].wave.s) # note_length * threads[t].key[Len(threads[t].key)]
        /\ C16_StaleNote(threads[t].key)
        /\ threads[u].pc \in {"store_note", "done"}
        /\ threads[u].key = threads[t].key
        /\ threads[t].wfs >= 1 /\ threads[u].wfs >= 1

====
